---- MODULE Spec2Model ----
(***************************************************************************)
(* A model of pyhound/hound.py: the grep-like client of a Hound code       *)
(* search server.  Two specifications share the module:                    *)
(*   Spec       one execution of Client.run: the initial fetch loop, the   *)
(*              planning of the follow-up ranges, the worker pool, the     *)
(*              collection and the output of the lines;                    *)
(*   SpecLines  the line assembly of one file: get_lines_with_context for  *)
(*              each match of the file, then merge_lines.                  *)
(***************************************************************************)
EXTENDS Integers, Sequences, FiniteSets, Bags, TLC

VARIABLES
    \* ---- the Hound server (the environment) ----
    srv_files,          \* repo -> number of files with a match
    srv_faults,         \* whether requests can fail during the run
    \* ---- Client fields ----
    before_context,     \* self.before_context
    after_context,      \* self.after_context
    context,            \* self.context
    _matching_repos,    \* self._matching_repos
    _left_to_retrieve,  \* self._left_to_retrieve
    _async_results,     \* self._async_results, one record per apply_async
    _results,           \* self._results
    \* ---- locals of Client.run and Client.show_results ----
    pc,                 \* the position of the main process
    rng,                \* run's rng, a string of characters
    results,            \* run's results: None or a Results mapping
    ranges,             \* the ranges the generator has still to yield
    lines,              \* show_results' lines
    n_collected,        \* the number of async results show_results has read
    printed,            \* the lines written to standard output
    exit_msg,           \* the message of sys.exit in the main process
    \* ---- history ----
    log,                \* the fetches of the initial loop: <<rng, outcome, answer>>
    sent,               \* bag of the rng strings the workers sent
    overtaken,          \* a follow-up ended before one dispatched earlier
    \* ---- the assembly of one file (SpecLines) ----
    asm_pc,             \* position in Client.get_lines for the file
    file_matches,       \* match['Matches'] of the file
    asm_i,              \* the number of matches of the file expanded so far
    asm_lines,          \* get_lines' lines list of the file
    asm_out             \* what get_lines yielded for the file

vars == <<srv_files, srv_faults, before_context, after_context, context, _matching_repos,
          _left_to_retrieve, _async_results, _results, pc, rng, results,
          ranges, lines, n_collected, printed, exit_msg, log, sent, overtaken,
          asm_pc, file_matches, asm_i, asm_lines, asm_out>>

run_vars == <<srv_files, _matching_repos, _left_to_retrieve, _async_results,
              _results, pc, rng, results, ranges, lines, n_collected, printed,
              exit_msg, log, sent, overtaken>>

asm_vars == <<asm_pc, file_matches, asm_i, asm_lines, asm_out>>

ctx_vars == <<before_context, after_context, context, srv_faults>>

(***************************************************************************)
(* Program constants                                                       *)
(***************************************************************************)
DEFAULT_BATCH_SIZE == 50
N_THREADS == 10
LINE_KIND_MATCH == 1
LINE_KIND_CONTEXT == 2

(***************************************************************************)
(* Bounds of the model                                                     *)
(***************************************************************************)
\* the largest FilesWithMatch of a repository
MaxFiles == 151
\* the number of files the server returns for the range-less request
ProbeLimit == 20
\* the number of lines of a file
FileLen == 3
\* the largest number of matches the server reports in one file
MaxMatches == 2
\* the largest number of context lines the server attaches to a match
MaxCtx == 2
\* the largest -A, -B or -C value
MaxRequested == 3

\* None of an integer option (-A, -B, -C are never negative)
None == -1

\* None of get_search_results: the "too many results" answer
NoResults == [None |-> TRUE]

Min(a, b) == IF a < b THEN a ELSE b
Max(a, b) == IF a > b THEN a ELSE b

(***************************************************************************)
(* Python values and slices                                                *)
(***************************************************************************)
\* x or 0
or_zero(x) == IF x = None THEN 0 ELSE x

\* bool(x) of an option: None and 0 are false
truthy(x) == x # None /\ x # 0

\* a variant of slice_last that takes the lines from the wrong end: s[:n]
slice_last_from_start(s, n) == SubSeq(s, 1, Min(n, Len(s)))

\* s[-n:] for n > 0
slice_last(s, n) == SubSeq(s, Max(1, Len(s) - n + 1), Len(s))

\* s[:n] for n >= 0
slice_first(s, n) == SubSeq(s, 1, Min(n, Len(s)))

(***************************************************************************)
(* get_lines_with_context                                                  *)
(***************************************************************************)
\* a variant of context_split that counts the matching line (line 62 left out)
context_split_counting_match(requested_context, lines_after) ==
    LET rc  == requested_context
        rb1 == (rc + 1) \div 2
        ra1 == rc - rb1
        ra2 == Min(ra1, Len(lines_after))
        rb2 == rc - ra2
    IN  <<rb2, ra2>>

\* a variant of context_split that gives the odd line to the lines after
context_split_more_after(requested_context, lines_after) ==
    LET rc  == requested_context - 1
        rb1 == rc \div 2
        ra1 == rc - rb1
        ra2 == Min(ra1, Len(lines_after))
        rb2 == rc - ra2
    IN  <<rb2, ra2>>

\* the split of "-C": requested_before and requested_after after lines 61-66
context_split(requested_context, lines_after) ==
    LET rc  == requested_context - 1
        rb1 == (rc + 1) \div 2
        ra1 == rc - rb1
        ra2 == Min(ra1, Len(lines_after))
        rb2 == rc - ra2
    IN  <<rb2, ra2>>

\* the assertions of lines 54-59 on the options as they are passed
asserts_hold(requested_before, requested_after, requested_context) ==
    /\ or_zero(requested_before) >= 0
    /\ or_zero(requested_after) >= 0
    /\ requested_context # None => requested_context >= 1
    /\ (truthy(requested_before) \/ truthy(requested_after)) =>
          requested_context = None

\* <<requested_before, requested_after>> as they stand at line 68
requested_counts(lines_after, requested_before, requested_after, requested_context) ==
    IF requested_context # None
    THEN context_split(requested_context, lines_after)
    ELSE <<or_zero(requested_before), or_zero(requested_after)>>

\* the tuple "before" of line 71 (empty when nothing is requested)
before_lines(lines_before, rb) ==
    IF rb > 0 THEN slice_last(lines_before, rb) ELSE <<>>

\* the tuple "after" of line 74
after_lines(lines_after, ra) ==
    IF ra > 0 THEN slice_first(lines_after, ra) ELSE <<>>

\* the sequence of <<line_number, line_kind, line>> the generator yields
get_lines_with_context(line, line_number, lines_before, lines_after, requested_before, requested_after, requested_context) ==
    LET req      == requested_counts(lines_after, requested_before,
                                     requested_after, requested_context)
        before   == before_lines(lines_before, req[1])
        after    == after_lines(lines_after, req[2])
        n_before == Len(before)
    IN  [i \in 1..n_before |->
            <<line_number - n_before + (i - 1), LINE_KIND_CONTEXT, before[i]>>]
        \o <<<<line_number, LINE_KIND_MATCH, line>>>>
        \o [i \in 1..Len(after) |->
            <<line_number + i, LINE_KIND_CONTEXT, after[i]>>]

(***************************************************************************)
(* merge_lines                                                             *)
(***************************************************************************)
\* a variant of key_le that sorts by the line number alone
key_le_number_only(a, b) == a[3] <= b[3]

\* the sort key of line 92: (line number, line kind), compared as tuples
key_le(a, b) == a[3] < b[3] \/ (a[3] = b[3] /\ a[4] <= b[4])

\* x put behind every entry whose key is not larger: the sort is stable
RECURSIVE insert_sorted(_, _)
insert_sorted(s, x) ==
    IF s = <<>> THEN <<x>>
    ELSE IF key_le(Head(s), x)
         THEN <<Head(s)>> \o insert_sorted(Tail(s), x)
         ELSE <<x>> \o s

\* sorted(lines, key=...)
RECURSIVE sorted(_)
sorted(s) ==
    IF s = <<>> THEN <<>>
    ELSE insert_sorted(sorted(SubSeq(s, 1, Len(s) - 1)), s[Len(s)])

\* the loop of lines 93-98: the first entry of each line number is kept
RECURSIVE merge_scan(_, _)
merge_scan(s, seen) ==
    IF s = <<>> THEN <<>>
    ELSE IF Head(s)[3] \in seen
         THEN merge_scan(Tail(s), seen)
         ELSE <<Head(s)>> \o merge_scan(Tail(s), seen \cup {Head(s)[3]})

merge_lines(ls) == merge_scan(sorted(ls), {})

(***************************************************************************)
(* Client.get_lines and Client.get_lines_for_repo                          *)
(***************************************************************************)
get_lines_for_repo(repo, filename, match, bc, ac, c) ==
    LET e == get_lines_with_context(match.Line, match.LineNumber,
                                    match.Before, match.After, bc, ac, c)
    IN  [i \in 1..Len(e) |-> <<repo, filename>> \o e[i]]

\* lines 349-352: the expansions of the matches of one file, in order
RECURSIVE expand_file(_, _, _, _, _, _)
expand_file(repo, filename, ms, bc, ac, c) ==
    IF ms = <<>> THEN <<>>
    ELSE get_lines_for_repo(repo, filename, Head(ms), bc, ac, c)
         \o expand_file(repo, filename, Tail(ms), bc, ac, c)

\* lines 353-354: merged only when some context is requested
file_lines(ls, bc, ac, c) ==
    IF truthy(bc) \/ truthy(ac) \/ truthy(c) THEN merge_lines(ls) ELSE ls

RECURSIVE lines_of_files(_, _, _, _, _)
lines_of_files(repo, fs, bc, ac, c) ==
    IF fs = <<>> THEN <<>>
    ELSE file_lines(expand_file(repo, Head(fs).Filename, Head(fs).Matches,
                                bc, ac, c), bc, ac, c)
         \o lines_of_files(repo, Tail(fs), bc, ac, c)

(***************************************************************************)
(* The server's data                                                       *)
(***************************************************************************)
\* the text of line n of a file
LineText(filename, n) == <<"text", filename, n>>

\* the match the server reports for line n of a file of FileLen lines,
\* with up to kb lines before it and up to ka lines after it
server_match(filename, n, kb, ka) ==
    LET nb == Min(kb, n - 1)
        na == Min(ka, FileLen - n)
    IN  [Line       |-> LineText(filename, n),
         LineNumber |-> n,
         Before     |-> [i \in 1..nb |-> LineText(filename, n - nb + i - 1)],
         After      |-> [i \in 1..na |-> LineText(filename, n + i)]]

(***************************************************************************)
(* Strings: the rng parameter is a string of characters                    *)
(***************************************************************************)
DIGITS == <<"0", "1", "2", "3", "4", "5", "6", "7", "8", "9">>

\* '%d' % n
RECURSIVE str_int(_)
str_int(n) ==
    IF n < 10 THEN <<DIGITS[n + 1]>>
    ELSE str_int(n \div 10) \o <<DIGITS[(n % 10) + 1]>>

\* '%d:%d' % (start, end)
format_range(start, end) == str_int(start) \o <<":">> \o str_int(end)

digit_value(ch) == CHOOSE d \in 0..9 : DIGITS[d + 1] = ch

\* int(s) of a string of digits
RECURSIVE int_str(_)
int_str(s) ==
    IF Len(s) = 1 THEN digit_value(s[1])
    ELSE 10 * int_str(SubSeq(s, 1, Len(s) - 1)) + digit_value(s[Len(s)])

\* s.split(':'), for a string with one colon
split_colon(s) ==
    LET k == CHOOSE i \in 1..Len(s) : s[i] = ":"
    IN  <<SubSeq(s, 1, k - 1), SubSeq(s, k + 1, Len(s))>>

\* needle in s
contains(s, needle) ==
    \E i \in 1..(Len(s) - Len(needle) + 1) :
        SubSeq(s, i, i + Len(needle) - 1) = needle

(***************************************************************************)
(* The server's answers                                                    *)
(***************************************************************************)
Repos == {"r1", "r2"}

\* the order in which results.items() visits the repositories
RepoSeq == <<"r1", "r2">>

\* the files of a repository are numbered from 0; a file has a match in
\* line 2, and every fifth file another one in line 3
file_entry(f) ==
    [Filename |-> f,
     Matches  |-> IF f % 5 = 0
                  THEN <<server_match(f, 2, 1, 1), server_match(f, 3, 1, 1)>>
                  ELSE <<server_match(f, 2, 1, 1)>>]

\* the Results of the window [start, end) of every repository with a match
window_results(files, start, end) ==
    [r \in {q \in Repos : files[q] > 0} |->
        [FilesWithMatch |-> files[r],
         Matches |-> [i \in 1..Max(0, Min(end, files[r]) - start) |->
                        file_entry(start + i - 1)]]]

SEARCH_EXCEEDS_LIMIT == <<"search", "exceeds", "limit">>

\* the messages of the server's Error field, as sequences of words
LimitMessage == <<"too", "many", "results:">> \o SEARCH_EXCEEDS_LIMIT
OtherMessage == <<"invalid", "regexp">>

\* the largest FilesWithMatch among the repositories
srv_max(files) == CHOOSE n \in {files[r] : r \in Repos} :
                      \A r \in Repos : files[r] <= n

\* the window the server reads off the rng parameter; without one it
\* chooses its own first window: every file, or the first ProbeLimit files
server_windows(files, r) ==
    IF r = <<>>
    THEN {<<0, srv_max(files)>>, <<0, Min(srv_max(files), ProbeLimit)>>}
    ELSE {<<int_str(split_colon(r)[1]), int_str(split_colon(r)[2])>>}

\* what requests.get and response.json() can give for one request; the
\* search exceeds the server's limit only in a window that holds a file
server_replies(files, r) ==
    {[kind |-> "ConnectionError"], [kind |-> "Timeout"], [kind |-> "ValueError"]}
    \cup {[kind |-> "json", body |-> [Error |-> OtherMessage]],
          [kind |-> "json", body |-> [Unknown |-> <<>>]]}
    \cup {[kind |-> "json", body |-> [Error |-> LimitMessage]] :
            w \in {v \in server_windows(files, r) : v[1] < Min(v[2], srv_max(files))}}
    \cup {[kind |-> "json", body |-> [Results |-> window_results(files, w[1], w[2])]] :
            w \in server_windows(files, r)}

\* the answers of a server that answers every request and whose limit is
\* DEFAULT_BATCH_SIZE files: a range-less search over more files exceeds it
server_answers(files, r) ==
    {reply \in server_replies(files, r) :
        /\ reply.kind = "json"
        /\ IF r = <<>> /\ srv_max(files) > DEFAULT_BATCH_SIZE
           THEN "Error" \in DOMAIN reply.body /\ reply.body.Error = LimitMessage
           ELSE "Results" \in DOMAIN reply.body}

\* what a request of the run can get
replies_now(r) ==
    IF srv_faults THEN server_replies(srv_files, r)
    ELSE server_answers(srv_files, r)

\* what the history keeps of an answer: all but the Results themselves
reply_summary(reply) ==
    [kind        |-> reply.kind,
     has_error   |-> reply.kind = "json" /\ "Error" \in DOMAIN reply.body,
     error       |-> IF reply.kind = "json" /\ "Error" \in DOMAIN reply.body
                     THEN reply.body.Error ELSE <<>>,
     has_results |-> reply.kind = "json" /\ "Results" \in DOMAIN reply.body]

\* the summary of a request that has no answer yet
NoReply == [kind |-> "none", has_error |-> FALSE, error |-> <<>>, has_results |-> FALSE]

(***************************************************************************)
(* call_api, handle_hound_error, get_search_results                        *)
(***************************************************************************)
\* the outcome of a call: sys.exit, an exception, or a returned value
Exit(msg) == [kind |-> "exit", msg |-> msg]
Raise(exc) == [kind |-> "raise", exc |-> exc]
Return(v) == [kind |-> "return", value |-> v]

call_api(reply) ==
    IF reply.kind \in {"ConnectionError", "Timeout"}
    THEN Exit("Could not connect to Hound server")
    ELSE IF reply.kind = "ValueError"
         THEN Exit("Server did not return a valid JSON response")
         ELSE Return(reply.body)

handle_hound_error(response) ==
    IF "Error" \in DOMAIN response
    THEN Exit("Hound server returned an error")
    ELSE Return(NoResults)

\* response.get('Error', '')
get_error(response) ==
    IF "Error" \in DOMAIN response THEN response.Error ELSE <<>>

\* lines 137-150
get_search_results(reply) ==
    LET called == call_api(reply)
    IN  IF called.kind = "exit" THEN called
        ELSE LET response == called.value
             IN  IF contains(get_error(response), SEARCH_EXCEEDS_LIMIT)
                 THEN Return(NoResults)
                 ELSE IF handle_hound_error(response).kind = "exit"
                      THEN handle_hound_error(response)
                      ELSE IF "Results" \in DOMAIN response
                           THEN Return(response.Results)
                           ELSE Raise("KeyError")

(***************************************************************************)
(* Client._get_required_ranges                                             *)
(***************************************************************************)
\* results.items(), in the order of RepoSeq
items(res) == SelectSeq(RepoSeq, LAMBDA r : r \in DOMAIN res)

\* max_files_with_match after the loop of lines 270-274
max_files_with_match(res) ==
    LET ns == {res[r].FilesWithMatch : r \in DOMAIN res} \cup {0}
    IN  CHOOSE n \in ns : \A m \in ns : m <= n

\* range(start, stop, step) for a positive step
py_range(start, stop, step) ==
    [i \in 1..(IF stop > start THEN (stop - start + step - 1) \div step ELSE 0) |->
        start + (i - 1) * step]

\* the strings the generator yields (lines 279-282)
required_ranges(res) ==
    LET ends == py_range(2 * DEFAULT_BATCH_SIZE, max_files_with_match(res),
                         DEFAULT_BATCH_SIZE)
    IN  [i \in 1..Len(ends) |->
            format_range(IF i = 1 THEN DEFAULT_BATCH_SIZE ELSE ends[i - 1], ends[i])]

\* self._left_to_retrieve after the loop of lines 276-277
left_to_retrieve(res) ==
    [r \in DOMAIN res |-> res[r].FilesWithMatch - Len(res[r].Matches)]

\* self._matching_repos after the loop of lines 270-274
matching_repos(res) == [r \in DOMAIN res |-> res[r].FilesWithMatch]

(***************************************************************************)
(* Client.get_lines                                                        *)
(***************************************************************************)
RECURSIVE lines_of_repos(_, _, _, _, _)
lines_of_repos(res, rs, bc, ac, c) ==
    IF rs = <<>> THEN <<>>
    ELSE lines_of_files(Head(rs), res[Head(rs)].Matches, bc, ac, c)
         \o lines_of_repos(res, Tail(rs), bc, ac, c)

get_lines(res, bc, ac, c) == lines_of_repos(res, items(res), bc, ac, c)

(***************************************************************************)
(* Client.run: the loop of lines 228-246                                   *)
(***************************************************************************)
\* a variant of next_rng that rounds the half up
next_rng_round_up(r) ==
    IF r = <<>>
    THEN format_range(0, DEFAULT_BATCH_SIZE)
    ELSE LET end == (int_str(split_colon(r)[2]) + 1) \div 2
         IN  IF end = 0 THEN <<"exit">> ELSE format_range(0, end)

\* a variant of next_rng without the sys.exit of lines 243-245
next_rng_no_exit(r) ==
    IF r = <<>>
    THEN format_range(0, DEFAULT_BATCH_SIZE)
    ELSE format_range(0, int_str(split_colon(r)[2]) \div 2)

\* the rng of the next iteration; <<"exit">> stands for the sys.exit of line 245
next_rng(r) ==
    IF r = <<>>
    THEN format_range(0, DEFAULT_BATCH_SIZE)
    ELSE LET end == int_str(split_colon(r)[2]) \div 2
         IN  IF end = 0 THEN <<"exit">> ELSE format_range(0, end)

TOO_MANY == "There are too many results to retrieve in the smallest possible range."

\* a variant of loop_again that goes on shrinking after a success
loop_again_always(value) == TRUE

\* the condition of the while of line 230
loop_again(value) == value = NoResults

\* one iteration of the loop: the request, its answer, the next rng
run_fetch ==
    /\ pc = "loop"
    /\ \E reply \in replies_now(rng) :
          LET out == get_search_results(reply)
          IN  IF out.kind = "exit"
              THEN /\ pc' = "exit"
                   /\ exit_msg' = out.msg
                   /\ log' = Append(log, <<rng, "exit", reply_summary(reply)>>)
                   /\ UNCHANGED <<rng, results>>
              ELSE IF out.kind = "raise"
              THEN /\ pc' = "crash"
                   /\ log' = Append(log, <<rng, "raise", reply_summary(reply)>>)
                   /\ UNCHANGED <<rng, results, exit_msg>>
              ELSE /\ results' = out.value
                   /\ log' = Append(log, <<rng, IF out.value = NoResults
                                                THEN "None" ELSE "Results",
                                           reply_summary(reply)>>)
                   /\ IF next_rng(rng) = <<"exit">>
                      THEN pc' = "exit" /\ exit_msg' = TOO_MANY /\ rng' = rng
                      ELSE /\ rng' = next_rng(rng)
                           /\ pc' = IF loop_again(out.value) THEN "loop" ELSE "plan"
                           /\ exit_msg' = exit_msg
    /\ UNCHANGED <<srv_files, _matching_repos, _left_to_retrieve, _async_results,
                   _results, ranges, lines, n_collected, printed, sent>>
    /\ UNCHANGED <<asm_vars, ctx_vars, overtaken>>

(***************************************************************************)
(* Client.run: lines 248-255 and the first step of the generator           *)
(***************************************************************************)
run_plan ==
    /\ pc = "plan"
    /\ _results' = <<results>>
    /\ IF rng # <<>>
       THEN /\ _matching_repos' = matching_repos(results)
            /\ _left_to_retrieve' = left_to_retrieve(results)
            /\ ranges' = required_ranges(results)
            /\ pc' = "dispatch"
       ELSE /\ pc' = "show"
            /\ UNCHANGED <<_matching_repos, _left_to_retrieve, ranges>>
    /\ UNCHANGED <<srv_files, _async_results, rng, results, lines, n_collected,
                   printed, exit_msg, log, sent>>
    /\ UNCHANGED <<asm_vars, ctx_vars, overtaken>>

(***************************************************************************)
(* Client.run: the loop of lines 256-263, pool.close() and pool.join()     *)
(***************************************************************************)
run_apply_async ==
    /\ pc = "dispatch"
    /\ ranges # <<>>
    /\ rng' = Head(ranges)
    /\ ranges' = Tail(ranges)
    /\ _async_results' = Append(_async_results,
                                [rng |-> Head(ranges), state |-> "queued",
                                 value |-> NoResults, reply |-> NoReply])
    /\ UNCHANGED <<srv_files, _matching_repos, _left_to_retrieve, _results, pc,
                   results, lines, n_collected, printed, exit_msg, log, sent>>
    /\ UNCHANGED <<asm_vars, ctx_vars, overtaken>>

\* the tasks a worker of the pool is running
running == {i \in 1..Len(_async_results) : _async_results[i].state = "running"}

\* a variant of pool_has_idle_worker for a pool that starts a process per task
pool_has_idle_worker_always == TRUE

\* Pool(processes=N_THREADS): one of the N_THREADS workers is idle
pool_has_idle_worker == Cardinality(running) < N_THREADS

\* an idle worker takes the oldest task of the queue
worker_start(i) ==
    /\ _async_results[i].state = "queued"
    /\ \A j \in 1..(i - 1) : _async_results[j].state # "queued"
    /\ pool_has_idle_worker
    /\ _async_results' = [_async_results EXCEPT ![i].state = "running"]
    /\ sent' = sent (+) SetToBag({_async_results[i].rng})
    /\ UNCHANGED <<srv_files, _matching_repos, _left_to_retrieve, _results, pc,
                   rng, results, ranges, lines, n_collected, printed, exit_msg, log>>
    /\ UNCHANGED <<asm_vars, ctx_vars, overtaken>>

\* the state of a task whose call of get_search_results ended with out: a
\* returned value and an exception are stored in the AsyncResult; sys.exit
\* ends the worker process and the task is lost
task_end(out) ==
    IF out.kind = "return" THEN [state |-> "ready", value |-> out.value]
    ELSE IF out.kind = "raise" THEN [state |-> "raised", value |-> NoResults]
    ELSE [state |-> "lost", value |-> NoResults]

\* a variant of worker_finish in which the worker also subtracts the files it
\* got from the outstanding counts
worker_finish_updating_counts(i) ==
    /\ _async_results[i].state = "running"
    /\ \E reply \in replies_now(_async_results[i].rng) :
          LET t == task_end(get_search_results(reply))
          IN  /\ _async_results' = [_async_results EXCEPT ![i].state = t.state,
                                                          ![i].value = t.value,
                                                          ![i].reply = reply_summary(reply)]
              /\ _left_to_retrieve' =
                    [r \in DOMAIN _left_to_retrieve |->
                        IF t.state = "ready" /\ t.value # NoResults /\ r \in DOMAIN t.value
                        THEN _left_to_retrieve[r] - Len(t.value[r].Matches)
                        ELSE _left_to_retrieve[r]]
    /\ UNCHANGED <<srv_files, _matching_repos, _results, pc,
                   rng, results, ranges, lines, n_collected, printed, exit_msg, log,
                   sent>>
    /\ overtaken' = (overtaken \/ \E j \in 1..(i - 1) :
                                     _async_results[j].state \in {"queued", "running"})
    /\ UNCHANGED <<asm_vars, ctx_vars>>

\* a worker gets the answer to its request: lines 137-150 in a worker
worker_finish(i) ==
    /\ _async_results[i].state = "running"
    /\ \E reply \in replies_now(_async_results[i].rng) :
          LET t == task_end(get_search_results(reply))
          IN  _async_results' = [_async_results EXCEPT ![i].state = t.state,
                                                       ![i].value = t.value,
                                                       ![i].reply = reply_summary(reply)]
    /\ UNCHANGED <<srv_files, _matching_repos, _left_to_retrieve, _results, pc,
                   rng, results, ranges, lines, n_collected, printed, exit_msg, log,
                   sent>>
    /\ overtaken' = (overtaken \/ \E j \in 1..(i - 1) :
                                     _async_results[j].state \in {"queued", "running"})
    /\ UNCHANGED <<asm_vars, ctx_vars>>

\* the tasks whose result has arrived
finished == {i \in 1..Len(_async_results) :
                _async_results[i].state \in {"ready", "raised"}}

\* pool.join() returns when every task has a result
run_join ==
    /\ pc = "dispatch"
    /\ ranges = <<>>
    /\ finished = 1..Len(_async_results)
    /\ pc' = "show"
    /\ UNCHANGED <<srv_files, _matching_repos, _left_to_retrieve, _async_results,
                   _results, rng, results, ranges, lines, n_collected, printed,
                   exit_msg, log, sent>>
    /\ UNCHANGED <<asm_vars, ctx_vars, overtaken>>

\* pool.join() never returns when a task was lost with its worker
run_join_hang ==
    /\ pc = "dispatch"
    /\ ranges = <<>>
    /\ \A i \in 1..Len(_async_results) :
          _async_results[i].state \in {"ready", "raised", "lost"}
    /\ \E i \in 1..Len(_async_results) : _async_results[i].state = "lost"
    /\ pc' = "hang"
    /\ UNCHANGED <<srv_files, _matching_repos, _left_to_retrieve, _async_results,
                   _results, rng, results, ranges, lines, n_collected, printed,
                   exit_msg, log, sent>>
    /\ UNCHANGED <<asm_vars, ctx_vars, overtaken>>

(***************************************************************************)
(* Client.show_results                                                     *)
(***************************************************************************)
\* the loop of lines 375-377 has ended: every async result has been read
all_collected == n_collected = Len(_async_results)

\* a variant of show_results_get that passes over a follow-up without results
show_results_get_skipping_none ==
    /\ pc = "show"
    /\ n_collected < Len(_async_results)
    /\ LET a == _async_results[n_collected + 1]
       IN  IF a.state = "raised"
           THEN pc' = "crash" /\ UNCHANGED <<lines, n_collected>>
           ELSE /\ lines' = IF a.value = NoResults THEN lines
                            ELSE lines \o get_lines(a.value, before_context,
                                                    after_context, context)
                /\ n_collected' = n_collected + 1
                /\ pc' = "show"
    /\ UNCHANGED <<srv_files, _matching_repos, _left_to_retrieve, _async_results,
                   _results, rng, results, ranges, printed, exit_msg, log, sent>>
    /\ UNCHANGED <<asm_vars, ctx_vars, overtaken>>

\* a variant of show_results_get that reads the async results last first
show_results_get_last_first ==
    /\ pc = "show"
    /\ n_collected < Len(_async_results)
    /\ LET a == _async_results[Len(_async_results) - n_collected]
       IN  IF a.state = "raised" \/ a.value = NoResults
           THEN pc' = "crash" /\ UNCHANGED <<lines, n_collected>>
           ELSE /\ lines' = lines \o get_lines(a.value, before_context,
                                               after_context, context)
                /\ n_collected' = n_collected + 1
                /\ pc' = "show"
    /\ UNCHANGED <<srv_files, _matching_repos, _left_to_retrieve, _async_results,
                   _results, rng, results, ranges, printed, exit_msg, log, sent>>
    /\ UNCHANGED <<asm_vars, ctx_vars, overtaken>>

\* one iteration of the loop of lines 375-377
show_results_get ==
    /\ pc = "show"
    /\ n_collected < Len(_async_results)
    /\ LET a == _async_results[n_collected + 1]
       IN  IF a.state = "raised" \/ a.value = NoResults
           THEN pc' = "crash" /\ UNCHANGED <<lines, n_collected>>
           ELSE /\ lines' = lines \o get_lines(a.value, before_context,
                                               after_context, context)
                /\ n_collected' = n_collected + 1
                /\ pc' = "show"
    /\ UNCHANGED <<srv_files, _matching_repos, _left_to_retrieve, _async_results,
                   _results, rng, results, ranges, printed, exit_msg, log, sent>>
    /\ UNCHANGED <<asm_vars, ctx_vars, overtaken>>

\* one iteration of the loop of lines 380-403; after the last one run returns
show_results_line ==
    /\ pc = "show"
    /\ all_collected
    /\ IF Len(printed) < Len(lines)
       THEN printed' = Append(printed, lines[Len(printed) + 1]) /\ pc' = "show"
       ELSE pc' = "done" /\ printed' = printed
    /\ UNCHANGED <<srv_files, _matching_repos, _left_to_retrieve, _async_results,
                   _results, rng, results, ranges, lines, n_collected, exit_msg, log,
                   sent>>
    /\ UNCHANGED <<asm_vars, ctx_vars, overtaken>>

(***************************************************************************)
(* Client.get_lines for one file, step by step                             *)
(***************************************************************************)
\* lines 351-352: the expansion of the next match of the file
get_lines_extend ==
    /\ asm_pc = "matches"
    /\ asm_i < Len(file_matches)
    /\ asserts_hold(before_context, after_context, context)
    /\ asm_lines' = asm_lines \o get_lines_for_repo("r1", "a.go", file_matches[asm_i + 1], before_context, after_context, context)
    /\ asm_i' = asm_i + 1
    /\ UNCHANGED <<asm_pc, file_matches, asm_out>>
    /\ UNCHANGED <<run_vars, ctx_vars>>

\* lines 349-352 when an assertion of get_lines_with_context fails: the
\* AssertionError ends the assembly
get_lines_assert ==
    /\ asm_pc = "matches"
    /\ asm_i < Len(file_matches)
    /\ ~asserts_hold(before_context, after_context, context)
    /\ asm_pc' = "crash"
    /\ UNCHANGED <<file_matches, asm_i, asm_lines, asm_out>>
    /\ UNCHANGED <<run_vars, ctx_vars>>

\* lines 353-356 with some context requested: the lines are merged
get_lines_merge ==
    /\ asm_pc = "matches"
    /\ asm_i = Len(file_matches)
    /\ truthy(before_context) \/ truthy(after_context) \/ truthy(context)
    /\ asm_out' = file_lines(asm_lines, before_context, after_context, context)
    /\ asm_pc' = "yielded"
    /\ UNCHANGED <<file_matches, asm_i, asm_lines>>
    /\ UNCHANGED <<run_vars, ctx_vars>>

\* lines 353-356 with no context requested: the lines pass through
get_lines_pass ==
    /\ asm_pc = "matches"
    /\ asm_i = Len(file_matches)
    /\ ~(truthy(before_context) \/ truthy(after_context) \/ truthy(context))
    /\ asm_out' = file_lines(asm_lines, before_context, after_context, context)
    /\ asm_pc' = "yielded"
    /\ UNCHANGED <<file_matches, asm_i, asm_lines>>
    /\ UNCHANGED <<run_vars, ctx_vars>>

(***************************************************************************)
(* Initial states                                                          *)
(***************************************************************************)
\* the options the assertions of Client.__init__ (lines 178-179) accept:
\* <<before, after, context>>
ContextConfigs ==
    {<<b, a, None>> : b \in {None} \cup 0..MaxRequested,
                      a \in {None} \cup 0..MaxRequested}
    \cup {<<b, a, c>> : b \in {None, 0}, a \in {None, 0}, c \in 0..MaxRequested}

\* the options of the modelled runs
RunContexts == {<<None, None, None>>, <<None, None, 2>>}

\* the numbers of files with a match the modelled repositories have
FilesChoices ==
    {f \in 0..MaxFiles : f % DEFAULT_BATCH_SIZE \in {0, 1}} \cup {MaxFiles}

\* the numbers of files of the second repository: at most one file beyond
\* the first window
SecondChoices == {f \in FilesChoices : f <= DEFAULT_BATCH_SIZE + 1}

\* the sequences of at most n elements of S
RECURSIVE SeqsUpTo(_, _)
SeqsUpTo(S, n) ==
    IF n = 0 THEN {<<>>}
    ELSE LET shorter == SeqsUpTo(S, n - 1)
         IN  shorter \cup {Append(s, x) : s \in shorter, x \in S}

\* the fields of a Client after __init__ (lines 194-197) and run's locals
\* at line 229
InitClient ==
    /\ _matching_repos = <<>>
    /\ _left_to_retrieve = <<>>
    /\ _async_results = <<>>
    /\ _results = <<>>
    /\ rng = <<>>
    /\ results = NoResults
    /\ ranges = <<>>
    /\ lines = <<>>
    /\ n_collected = 0
    /\ printed = <<>>
    /\ exit_msg = ""
    /\ log = <<>>
    /\ sent = EmptyBag
    /\ overtaken = FALSE

InitNoFile ==
    /\ asm_pc = "idle"
    /\ file_matches = <<>>
    /\ asm_i = 0
    /\ asm_lines = <<>>
    /\ asm_out = <<>>

Init ==
    /\ srv_files \in {[r \in Repos |-> IF r = "r1" THEN f1 ELSE f2] :
                        f1 \in FilesChoices, f2 \in SecondChoices}
    /\ srv_faults = TRUE
    /\ \E o \in RunContexts :
          before_context = o[1] /\ after_context = o[2] /\ context = o[3]
    /\ pc = "loop"
    /\ InitClient
    /\ InitNoFile

\* a repository with enough files for one follow-up more than the pool has
\* workers
PoolFiles == (N_THREADS + 2) * DEFAULT_BATCH_SIZE + 1

\* a run without context options over the repository of PoolFiles files
InitPool ==
    /\ srv_files = [r \in Repos |-> IF r = "r1" THEN PoolFiles ELSE 0]
    /\ srv_faults = FALSE
    /\ before_context = None /\ after_context = None /\ context = None
    /\ pc = "loop"
    /\ InitClient
    /\ InitNoFile

InitLines ==
    /\ srv_files = [r \in Repos |-> 0]
    /\ srv_faults = TRUE
    /\ \E o \in ContextConfigs :
          before_context = o[1] /\ after_context = o[2] /\ context = o[3]
    /\ pc = "idle"
    /\ InitClient
    /\ asm_pc = "matches"
    /\ \E kb \in 0..MaxCtx, ka \in 0..MaxCtx :
          file_matches \in {[i \in 1..Len(ns) |-> server_match("a.go", ns[i], kb, ka)] :
                               ns \in SeqsUpTo(1..FileLen, MaxMatches)}
    /\ asm_i = 0
    /\ asm_lines = <<>>
    /\ asm_out = <<>>

(***************************************************************************)
(* Specifications                                                          *)
(***************************************************************************)
Next ==
    \/ run_fetch
    \/ run_plan
    \/ run_apply_async
    \/ \E i \in 1..Len(_async_results) : worker_start(i)
    \/ \E i \in 1..Len(_async_results) : worker_finish(i)
    \/ run_join
    \/ run_join_hang
    \/ show_results_get
    \/ show_results_line

Spec == Init /\ [][Next]_vars

\* the steps of a run whose requests are all answered: pool.join() returns
NextPool ==
    \/ run_fetch
    \/ run_plan
    \/ run_apply_async
    \/ \E i \in 1..Len(_async_results) : worker_start(i)
    \/ \E i \in 1..Len(_async_results) : worker_finish(i)
    \/ run_join
    \/ show_results_get
    \/ show_results_line

SpecPool == InitPool /\ [][NextPool]_vars

NextLines ==
    \/ get_lines_extend
    \/ get_lines_assert
    \/ get_lines_merge
    \/ get_lines_pass

SpecLines == InitLines /\ [][NextLines]_vars

(***************************************************************************)
(* Properties of Client.run                                                *)
(***************************************************************************)
\* the window <<start, end>> an explicit rng string denotes
window_of(r) == <<int_str(split_colon(r)[1]), int_str(split_colon(r)[2])>>

\* the elements of a sequence
Range(s) == {s[i] : i \in 1..Len(s)}

\* run has left the initial loop with a response and planned the follow-ups
Planned == _results # <<>>

\* every range the generator yields: those dispatched and those still to come
PlannedRanges ==
    [i \in 1..Len(_async_results) |-> _async_results[i].rng] \o ranges

PlannedWindows == [i \in 1..Len(PlannedRanges) |-> window_of(PlannedRanges[i])]

\* the largest number of files a repository has in the initial response
FilesReturned ==
    LET ns == {Len(results[r].Matches) : r \in DOMAIN results} \cup {0}
    IN  CHOOSE n \in ns : \A m \in ns : m <= n

\* W: the size of the initial successful window, the end of the last window
\* of the loop or, for the range-less request, the number of files it gave
InitialWindowSize ==
    IF log[Len(log)][1] = <<>> THEN FilesReturned
    ELSE window_of(log[Len(log)][1])[2]

\* F: the largest FilesWithMatch of the initial response
LargestTotal == max_files_with_match(results)

\* C1: whenever the initial successful window has size W < F, the follow-up
\* windows cover the file ordinals [W, F) exactly once: the first starts at
\* W, each starts where the one before ended, the last ends at F, and each
\* has size W except possibly a shorter last one.
C1_FollowUpsCoverOnce ==
    (Planned /\ InitialWindowSize < LargestTotal) =>
        LET ws == PlannedWindows
            n  == Len(ws)
        IN  /\ n >= 1
            /\ ws[1][1] = InitialWindowSize
            /\ \A i \in 1..(n - 1) :
                  /\ ws[i][2] = ws[i + 1][1]
                  /\ ws[i][2] - ws[i][1] = InitialWindowSize
            /\ ws[n][2] = LargestTotal
            /\ ws[n][2] - ws[n][1] <= InitialWindowSize
            /\ ws[n][2] - ws[n][1] >= 1

\* the lines get_lines gives for the initial response
InitialLines == get_lines(_results[1], before_context, after_context, context)

\* C2: when run returns normally, every line of the matches of the initial
\* response is part of the output, and the initial window was requested once
\* and by no worker.
C2_InitialMergedNotRefetched ==
    pc = "done" =>
        /\ Range(InitialLines) \subseteq Range(printed)
        /\ ~BagIn(log[Len(log)][1], sent)
        /\ Cardinality({i \in 1..Len(log) : log[i][1] = log[Len(log)][1]}) = 1

\* every request of the initial loop so far was answered "too many results"
AllOverflowed == \A i \in 1..Len(log) : log[i][2] = "None"

\* C3: a successful request of the initial loop, whatever its window (also
\* [0,1)), ends the shrinking and run goes on with its response; run exits
\* with the "too many results in the smallest range" message only when every
\* request of the loop has overflowed.
C3_ExhaustedOnlyIfAllOverflow ==
    /\ exit_msg = TOO_MANY => AllOverflowed
    /\ (log # <<>> /\ log[Len(log)][2] = "Results") => pc # "exit"

\* the windows of a loop whose every request overflows
ShrinkSequence ==
    <<<<>>, format_range(0, 50), format_range(0, 25), format_range(0, 12),
      format_range(0, 6), format_range(0, 3), format_range(0, 1)>>

\* C4: the initial loop requests no window twice and makes at most seven
\* requests; when every request overflows the windows are the range-less one,
\* [0,50), [0,25), [0,12), [0,6), [0,3), [0,1), in this order, and after the
\* seventh run has exited with the "too many results" message; before it the
\* loop goes on.
C4_ShrinkingTerminates ==
    /\ \A i, j \in 1..Len(log) : i < j => log[i][1] # log[j][1]
    /\ Len(log) <= Len(ShrinkSequence)
    /\ AllOverflowed =>
          /\ \A i \in 1..Len(log) : log[i][1] = ShrinkSequence[i]
          /\ Len(log) = Len(ShrinkSequence) => (pc = "exit" /\ exit_msg = TOO_MANY)
          /\ Len(log) < Len(ShrinkSequence) => pc = "loop"

\* every window has overflowed and run has exited with the message
C4_Witness ==
    /\ pc = "exit"
    /\ exit_msg = TOO_MANY
    /\ AllOverflowed
    /\ Len(log) = Len(ShrinkSequence)

\* C5: the range-less request is the first of the loop and is made once, by
\* no worker; every later request of the loop follows a request that
\* overflowed and asks for a window [0,B') smaller than the one before; after
\* a successful request the loop makes no other, and no follow-up window
\* starts at 0.
C5_ShrinkOnDemand ==
    /\ \A i \in 1..Len(log) : (log[i][1] = <<>>) <=> (i = 1)
    /\ \A i \in 2..Len(log) :
          /\ log[i - 1][2] = "None"
          /\ window_of(log[i][1])[1] = 0
          /\ i > 2 => window_of(log[i][1])[2] < window_of(log[i - 1][1])[2]
    /\ \A i \in 1..Len(log) : log[i][2] = "Results" => (i = Len(log) /\ pc # "loop")
    /\ \A r \in Range(PlannedRanges) \cup BagToSet(sent) :
          r # <<>> /\ window_of(r)[1] # 0

\* the range-less request overflowed, [0,50) succeeded, and run returned
\* after the workers' requests
C5_Witness ==
    /\ Len(log) = 2
    /\ log[1][1] = <<>> /\ log[1][2] = "None"
    /\ log[2][1] = format_range(0, DEFAULT_BATCH_SIZE) /\ log[2][2] = "Results"
    /\ pc = "done"
    /\ sent # EmptyBag

\* C6: when the initial response leaves no file to retrieve in any
\* repository, the generator yields no range and nothing is dispatched.
C6_NoFollowUpWhenNothingLeft ==
    (Planned /\ \A r \in DOMAIN _left_to_retrieve : _left_to_retrieve[r] = 0)
        => PlannedRanges = <<>>

\* a request of the run ended the main process, or a worker, or raised
FetchFailed ==
    \/ \E i \in 1..Len(log) : log[i][2] \in {"exit", "raise"}
    \/ \E i \in 1..Len(_async_results) :
          \/ _async_results[i].state \in {"lost", "raised"}
          \/ _async_results[i].state = "ready" /\ _async_results[i].value = NoResults
    \/ exit_msg # ""

\* a line is written only when every range has been dispatched, every
\* dispatched request has ended and its result has been read; and a run one
\* of whose requests failed has written no line.
NoPartialOutput ==
    /\ printed # <<>> =>
          /\ ranges = <<>>
          /\ \A i \in 1..Len(_async_results) : _async_results[i].state = "ready"
          /\ n_collected = Len(_async_results)
    /\ (FetchFailed \/ pc \in {"exit", "crash", "hang"}) => printed = <<>>


\* the main process has ended: run returned, sys.exit, or an exception
Terminated == pc \in {"done", "exit", "crash"}

\* C9: a line is written only when every dispatched request has ended and its
\* result has been read; and a run one of whose requests (of the initial loop
\* or of a worker) failed ends without having written a line: it writes none
\* and it does not stay waiting for ever.
C9_FailFastNoPartialOutput ==
    /\ NoPartialOutput
    /\ (FetchFailed /\ ~ENABLED Next) => Terminated

(***************************************************************************)
(* Properties of the assembly of one file                                  *)
(***************************************************************************)
ContextRequested ==
    truthy(before_context) \/ truthy(after_context) \/ truthy(context)

\* C7: after the merge of the expanded entries of a file there is one entry
\* for each line number of the input and no other, and the entry of a line
\* number is a match exactly when some input entry of that line number is a
\* match, in whatever order the matches came.
C7_MergeMatchWins ==
    (asm_pc = "yielded" /\ ContextRequested) =>
        /\ {asm_out[i][3] : i \in 1..Len(asm_out)}
              = {asm_lines[i][3] : i \in 1..Len(asm_lines)}
        /\ \A i, j \in 1..Len(asm_out) : i < j => asm_out[i][3] # asm_out[j][3]
        /\ \A i \in 1..Len(asm_out) :
              (asm_out[i][4] = LINE_KIND_MATCH) <=>
                  \E j \in 1..Len(asm_lines) :
                      /\ asm_lines[j][3] = asm_out[i][3]
                      /\ asm_lines[j][4] = LINE_KIND_MATCH

\* a merge whose input holds a line number first as context, later as match
C7_Witness ==
    /\ asm_pc = "yielded"
    /\ ContextRequested
    /\ \E i, j \in 1..Len(asm_lines) :
          /\ i < j
          /\ asm_lines[i][3] = asm_lines[j][3]
          /\ asm_lines[i][4] = LINE_KIND_CONTEXT
          /\ asm_lines[j][4] = LINE_KIND_MATCH

\* the entries get_lines_with_context yields for a match under the options
Expansion(m) ==
    get_lines_with_context(m.Line, m.LineNumber, m.Before, m.After, before_context, after_context, context)

EmittedBefore(m) ==
    Cardinality({k \in 1..Len(Expansion(m)) : Expansion(m)[k][1] < m.LineNumber})

EmittedAfter(m) ==
    Cardinality({k \in 1..Len(Expansion(m)) : Expansion(m)[k][1] > m.LineNumber})

\* both context arrays of the match hold their share of the C - 1 lines
BothLongEnough(m) ==
    /\ Len(m.After) >= (context - 1) \div 2
    /\ Len(m.Before) >= (context - 1) - ((context - 1) \div 2)

\* C8: for every match expanded, the context lines emitted before it are at
\* most those of its preceding array and the ones emitted after it at most
\* those of its following array; with -C and both arrays long enough the two
\* numbers add up to C - 1.
C8_ContextWithinArrays ==
    \A i \in 1..asm_i :
        LET m == file_matches[i]
        IN  /\ EmittedBefore(m) <= Len(m.Before)
            /\ EmittedAfter(m) <= Len(m.After)
            /\ (context # None /\ BothLongEnough(m)) =>
                  EmittedBefore(m) + EmittedAfter(m) = context - 1

\* a match expanded with -C 3 and a line on each side
C8_Witness ==
    /\ context = 3
    /\ \E i \in 1..asm_i :
          /\ Len(file_matches[i].Before) >= 1
          /\ Len(file_matches[i].After) >= 1
          /\ Len(Expansion(file_matches[i])) = 3

(***************************************************************************)
(* Follow-up windows and the initial window                                *)
(***************************************************************************)

\* the initial loop ended with the success of an explicit window
InitialWindowExplicit == Planned /\ log[Len(log)][1] # <<>>

\* C11: when the initial loop succeeded on the window [0, W), the follow-up
\* windows are [W, 2W), [2W, 3W), ...: the first starts at W, each starts
\* where the one before ended, and each has width W.
C11_FollowUpsSizedAsInitial ==
    InitialWindowExplicit =>
        LET W == InitialWindowSize
        IN  /\ PlannedWindows # <<>> => PlannedWindows[1][1] = W
            /\ \A i \in 1..Len(PlannedWindows) :
                  PlannedWindows[i][2] - PlannedWindows[i][1] = W
            /\ \A i \in 2..Len(PlannedWindows) :
                  PlannedWindows[i][1] = PlannedWindows[i - 1][2]

(***************************************************************************)
(* Expansion of a match                                                    *)
(***************************************************************************)

\* the example of a match in line 10 with -C 3, two lines before it and
\* one after it
C12_Example ==
    get_lines_with_context("m", 10, <<"x", "y">>, <<"z">>, None, None, 3)
        = << <<9, LINE_KIND_CONTEXT, "y">>,
             <<10, LINE_KIND_MATCH, "m">>,
             <<11, LINE_KIND_CONTEXT, "z">> >>

\* C12: with -C C (C >= 1) the number of lines emitted after a match is
\* min(floor((C - 1) / 2), len(After)), the number requested before it is
\* C - 1 minus that, and the number emitted before it is the minimum of that
\* request and len(Before); a match in line 10 with C = 3, Before = [x, y]
\* and After = [z] gives 9 (context, y), 10 (match), 11 (context, z).
C12_SymmetricSplit ==
    /\ C12_Example
    /\ context # None =>
          \A i \in 1..asm_i :
              LET m        == file_matches[i]
                  n_after  == Min((context - 1) \div 2, Len(m.After))
                  n_before == (context - 1) - n_after
              IN  /\ requested_counts(m.After, before_context, after_context, context)
                        = <<n_before, n_after>>
                  /\ EmittedAfter(m) = n_after
                  /\ EmittedBefore(m) = Min(n_before, Len(m.Before))

\* a match at the end of the file expanded with -C 3: nothing follows it,
\* and the two lines before it are emitted
C12_Witness ==
    /\ context = 3
    /\ \E i \in 1..asm_i :
          /\ Len(file_matches[i].After) = 0
          /\ Len(file_matches[i].Before) = 2
          /\ EmittedBefore(file_matches[i]) = 2
          /\ EmittedAfter(file_matches[i]) = 0

\* the entries of the last match expanded, as the assembly holds them
LastExpanded ==
    LET n == Len(Expansion(file_matches[asm_i]))
    IN  SubSeq(asm_lines, Len(asm_lines) - n + 1, Len(asm_lines))

\* C13: with -B b and -A a (no -C) the expansion of a match in line L is the
\* last min(b, len(Before)) lines of Before, numbered consecutively up to
\* L - 1, then the match at L, then the first min(a, len(After)) lines of
\* After numbered from L + 1: one contiguous ascending run with one match.
C13_ExplicitContext ==
    (asm_i >= 1 /\ context = None) =>
        LET m  == file_matches[asm_i]
            L  == m.LineNumber
            nb == Min(or_zero(before_context), Len(m.Before))
            na == Min(or_zero(after_context), Len(m.After))
            e  == LastExpanded
        IN  /\ Len(asm_lines) >= nb + 1 + na
            /\ Len(e) = nb + 1 + na
            /\ \A k \in 1..nb :
                  /\ e[k][3] = L - nb + k - 1
                  /\ e[k][4] = LINE_KIND_CONTEXT
                  /\ e[k][5] = m.Before[Len(m.Before) - nb + k]
            /\ e[nb + 1][3] = L
            /\ e[nb + 1][4] = LINE_KIND_MATCH
            /\ e[nb + 1][5] = m.Line
            /\ \A k \in 1..na :
                  /\ e[nb + 1 + k][3] = L + k
                  /\ e[nb + 1 + k][4] = LINE_KIND_CONTEXT
                  /\ e[nb + 1 + k][5] = m.After[k]
            /\ \A k \in 2..Len(e) : e[k][3] = e[k - 1][3] + 1

\* a match expanded with -B 1 -A 3: Before holds more lines than requested,
\* After fewer
C13_Witness ==
    /\ asm_i >= 1
    /\ context = None
    /\ before_context = 1
    /\ after_context = 3
    /\ Len(file_matches[asm_i].Before) = 2
    /\ Len(file_matches[asm_i].After) = 0
    /\ Len(LastExpanded) = 2

(***************************************************************************)
(* No context requested                                                    *)
(***************************************************************************)

\* one match entry for each match of the file, in the order of the server
MatchEntries ==
    [i \in 1..Len(file_matches) |->
        <<"r1", "a.go", file_matches[i].LineNumber, LINE_KIND_MATCH,
          file_matches[i].Line>>]

\* C14: with before, after and context all unset or zero the assembly of a
\* file comes to its end and yields one match entry for each match of the
\* server, in the server's order, two matches of one line number included.
C14_PassThroughUnsetOrZero ==
    ~ContextRequested =>
        /\ asm_pc # "crash"
        /\ asm_pc = "yielded" => asm_out = MatchEntries

\* the same with context unset (before and after unset or zero)
PassThroughContextUnset ==
    (~ContextRequested /\ context = None) =>
        /\ asm_pc # "crash"
        /\ asm_pc = "yielded" => asm_out = MatchEntries

(***************************************************************************)
(* Scheduling                                                              *)
(***************************************************************************)

\* a follow-up has been handed to the pool or sent by a worker
FanOutStarted == _async_results # <<>> \/ sent # EmptyBag

\* show_results has begun to read results, to assemble or to print
AssemblyStarted ==
    n_collected > 0 \/ lines # <<>> \/ printed # <<>> \/ pc \in {"show", "done"}

\* C15: no follow-up is dispatched or sent before the last fetch of the
\* initial loop has returned Results; at most N_THREADS = 10 follow-ups are
\* in flight at any time; and show_results reads, assembles and prints only
\* after every dispatched follow-up has finished.
C15_ProbeThenBoundedFanOutThenBarrier ==
    /\ pc \in {"loop", "plan"} => ~FanOutStarted
    /\ FanOutStarted =>
          /\ log # <<>>
          /\ log[Len(log)][2] = "Results"
          /\ \A i \in 1..(Len(log) - 1) : log[i][2] = "None"
    /\ Cardinality(running) <= N_THREADS
    /\ N_THREADS = 10
    /\ AssemblyStarted =>
          /\ ranges = <<>>
          /\ finished = 1..Len(_async_results)

\* every worker of the pool is busy and a follow-up waits in the queue
C15_Witness ==
    /\ Cardinality(running) = N_THREADS
    /\ \E i \in 1..Len(_async_results) : _async_results[i].state = "queued"
    /\ Len(log) = 2

(***************************************************************************)
(* The bookkeeping of the planner                                          *)
(***************************************************************************)

bookkeeping == <<_matching_repos, _left_to_retrieve>>

\* the step changes the record of follow-up i
TaskStep(i) ==
    /\ i <= Len(_async_results')
    /\ _async_results'[i] # _async_results[i]

\* C16: _matching_repos and _left_to_retrieve change only in the step of
\* the planner, before any follow-up is dispatched; once a follow-up is
\* dispatched no step changes them; and a step of the worker of one
\* follow-up changes no other follow-up's record and no field of the Client.
C16_BookkeepingOnlyByPlanner ==
    [][ /\ bookkeeping' # bookkeeping =>
              (pc = "plan" /\ _async_results = <<>> /\ sent = EmptyBag)
        /\ _async_results # <<>> => bookkeeping' = bookkeeping
        /\ \A i \in 1..Len(_async_results) :
              TaskStep(i) =>
                  /\ \A j \in 1..Len(_async_results) :
                        j # i => _async_results'[j] = _async_results[j]
                  /\ UNCHANGED <<_matching_repos, _left_to_retrieve, _results,
                                 results, ranges, lines, printed>>
      ]_vars

\* a follow-up is in flight and some files are left to retrieve
C16_Witness ==
    /\ running # {}
    /\ \E r \in DOMAIN _left_to_retrieve : _left_to_retrieve[r] > 0
    /\ \E i \in 1..Len(_async_results) : _async_results[i].state = "ready"

(***************************************************************************)
(* A follow-up that exceeds the limit                                      *)
(***************************************************************************)

\* the follow-ups whose answer was "search exceeds limit"
Overflowed ==
    {i \in 1..Len(_async_results) :
        _async_results[i].state = "ready" /\ _async_results[i].value = NoResults}

\* C17: every follow-up window is planned once and sent at most once,
\* whatever its answer, the planned windows are those of the plan to the end
\* of the run (none is split, none is added), and a run in which a follow-up
\* answered "search exceeds limit" assembles nothing of it, prints nothing
\* and does not come to its end.
C17_FollowUpFetchedOnce ==
    /\ \A r \in BagToSet(sent) : CopiesIn(r, sent) = 1
    /\ BagToSet(sent) =
          {_async_results[i].rng : i \in {j \in 1..Len(_async_results) :
                                             _async_results[j].state # "queued"}}
    /\ Planned =>
          /\ PlannedRanges = required_ranges(results)
          /\ \A i, j \in 1..Len(PlannedRanges) :
                i # j => PlannedRanges[i] # PlannedRanges[j]
    /\ Overflowed # {} =>
          /\ pc # "done"
          /\ printed = <<>>
          /\ \A i \in Overflowed : n_collected < i

\* show_results has met a follow-up that exceeded the limit, after reading
\* the results of another one
C17_Witness ==
    /\ pc = "crash"
    /\ Overflowed # {}
    /\ n_collected >= 1
    /\ \A i \in 1..Len(_async_results) : CopiesIn(_async_results[i].rng, sent) = 1

(***************************************************************************)
(* The outcomes of a request                                               *)
(***************************************************************************)

\* the outcome of the request of a follow-up that has ended
TaskOutcome(a) ==
    IF a.state = "lost" THEN "exit"
    ELSE IF a.state = "raised" THEN "raise"
    ELSE IF a.value = NoResults THEN "None" ELSE "Results"

\* the outcome the classification gives to an answer
Classified(answer, outcome) ==
    /\ answer.kind \in {"ConnectionError", "Timeout", "ValueError"} =>
          outcome = "exit"
    /\ (answer.kind = "json" /\ answer.has_error) =>
          outcome = IF contains(answer.error, SEARCH_EXCEEDS_LIMIT)
                    THEN "None" ELSE "exit"
    /\ outcome = "Results" <=>
          (answer.kind = "json" /\ ~answer.has_error /\ answer.has_results)
    /\ outcome = "None" =>
          (answer.kind = "json" /\ answer.has_error)

\* the requests that have ended: <<rng, outcome, answer>>
Ended ==
    Range(log) \cup
    {<<_async_results[i].rng, TaskOutcome(_async_results[i]), _async_results[i].reply>> :
        i \in {j \in 1..Len(_async_results) :
                  _async_results[j].state \notin {"queued", "running"}}}

\* the classification of the answers, and what follows a fatal one in
\* every run: the request is not sent again, no fetch of the main process
\* follows, nothing is printed and run does not return
GatewayClassification ==
    /\ \A e \in Ended : Classified(e[3], e[2])
    /\ \A i \in 1..Len(log) :
          /\ log[i][2] \in {"exit", "raise"} =>
                (i = Len(log) /\ pc \in {"exit", "crash"} /\ _async_results = <<>>)
          /\ (log[i][2] = "None" /\ i < Len(log)) => log[i + 1][1] = next_rng(log[i][1])
    /\ \A e \in Ended : e[2] \in {"exit", "raise"} => (pc # "done" /\ printed = <<>>)
    /\ \A i \in 1..Len(_async_results) :
          _async_results[i].state = "lost" => CopiesIn(_async_results[i].rng, sent) = 1

\* C18: an answer whose Error holds 'search exceeds limit' gives no results
\* and does not end the run; any other Error, a transport failure and a
\* body that is not JSON are fatal: they are not retried and the run
\* terminates; Results are returned only for an answer without Error.
C18_GatewayOutcomes ==
    /\ GatewayClassification
    /\ ((\E e \in Ended : e[2] = "exit") /\ ~ENABLED Next) => Terminated

(***************************************************************************)
(* The windows sent to the server                                          *)
(***************************************************************************)

Digits == {DIGITS[i] : i \in 1..Len(DIGITS)}

\* r is "start:end": digits, one colon, digits, with 0 <= start < end
WellFormed(r) ==
    /\ \E k \in 2..(Len(r) - 1) :
          /\ r[k] = ":"
          /\ \A i \in 1..Len(r) : i # k => r[i] \in Digits
    /\ 0 <= window_of(r)[1]
    /\ window_of(r)[1] < window_of(r)[2]

\* the rng of every request sent so far, and of those planned
EverSent ==
    {log[i][1] : i \in 1..Len(log)} \cup BagToSet(sent) \cup Range(PlannedRanges)

\* C19: every rng sent to the server, in the initial loop or by a worker,
\* is the empty string or a well-formed "start:end" with 0 <= start < end;
\* the empty string is sent at most once, as the first request of the run.
C19_WindowsWellFormed ==
    /\ \A r \in EverSent : r = <<>> \/ WellFormed(r)
    /\ \A i \in 2..Len(log) : log[i][1] # <<>>
    /\ \A r \in BagToSet(sent) \cup Range(PlannedRanges) : r # <<>>
    /\ pc = "loop" => (rng = <<>> \/ WellFormed(rng))

\* the loop has sent the sentinel and shrunk the window down to 0:1, which
\* it has sent as well
C19_Witness ==
    /\ log # <<>>
    /\ log[1][1] = <<>>
    /\ log[Len(log)][1] = format_range(0, 1)
    /\ WellFormed(log[Len(log)][1])

(***************************************************************************)
(* The order of the lines                                                  *)
(***************************************************************************)

\* the follow-up whose window holds the file of a line
TaskOfLine(l) ==
    CHOOSE i \in 1..Len(_async_results) :
        /\ window_of(_async_results[i].rng)[1] <= l[2]
        /\ l[2] < window_of(_async_results[i].rng)[2]

\* the files that have a line in lines: <<repo, filename>>
FilesOfLines == {<<lines[i][1], lines[i][2]>> : i \in 1..Len(lines)}

\* the line numbers of the lines of a file, in the order of lines
NumbersOf(file) ==
    LET ls == SelectSeq(lines, LAMBDA l : <<l[1], l[2]>> = file)
    IN  [i \in 1..Len(ls) |-> ls[i][3]]

\* the line numbers of the expansions of the matches of a file, unmerged
ExpandedNumbers(file) ==
    LET e == expand_file(file[1], file[2], file_entry(file[2]).Matches,
                         before_context, after_context, context)
    IN  {e[i][3] : i \in 1..Len(e)}

\* ls comes follow-up by follow-up in the order of dispatch, from follow-ups
\* whose results have been read
InDispatchOrder(ls) ==
    /\ \A a \in 2..Len(ls) : TaskOfLine(ls[a - 1]) <= TaskOfLine(ls[a])
    /\ \A a \in 1..Len(ls) :
          /\ TaskOfLine(ls[a]) <= n_collected
          /\ ls[a][1] \in DOMAIN _async_results[TaskOfLine(ls[a])].value

\* the lines of every file have strictly increasing line numbers, which are
\* the line numbers of the expanded matches of the file
FilesMerged ==
    \A file \in FilesOfLines :
        /\ \A a \in 2..Len(NumbersOf(file)) :
              NumbersOf(file)[a - 1] < NumbersOf(file)[a]
        /\ Range(NumbersOf(file)) = ExpandedNumbers(file)

\* the last line printed follows the one before it in the order of dispatch
\* and, in one file with context requested, by line number
LastPrintedInOrder ==
    Len(printed) >= 2 =>
        LET p == printed[Len(printed) - 1]
            q == printed[Len(printed)]
        IN  /\ TaskOfLine(p) <= TaskOfLine(q)
            /\ (ContextRequested /\ p[1] = q[1] /\ p[2] = q[2]) => p[3] < q[3]

\* C20: the follow-ups are dispatched by ascending window start, and the
\* lines show_results assembles and prints come follow-up by follow-up in
\* that order, whatever the order in which the follow-ups ended; with
\* context requested the lines of one file have strictly increasing line
\* numbers, which are exactly the line numbers of the expanded matches.
\* (The assembled lines are examined before the first is printed; what is
\* printed is a prefix of them.)
C20_LinesInDispatchOrder ==
    /\ \A i \in 2..Len(_async_results) :
          window_of(_async_results[i - 1].rng)[1] < window_of(_async_results[i].rng)[1]
    /\ Len(printed) <= Len(lines)
    /\ printed = SubSeq(lines, 1, Len(printed))
    /\ LastPrintedInOrder
    /\ printed = <<>> =>
          /\ InDispatchOrder(lines)
          /\ ContextRequested => FilesMerged

\* context is requested, the second follow-up ended before the first, and
\* the lines of both have been assembled, those of a file with two matches
\* among them
C20_Witness ==
    /\ ContextRequested
    /\ overtaken
    /\ n_collected = 2
    /\ \E file \in FilesOfLines :
          /\ Len(file_entry(file[2]).Matches) = 2
          /\ Len(NumbersOf(file)) = 3
    /\ TaskOfLine(lines[1]) = 1
    /\ TaskOfLine(lines[Len(lines)]) = 2

\* the same for the assembly of one file, whatever the order of its
\* matches: the merged lines have strictly increasing line numbers, which
\* are those of the expanded matches
MergedStrictlyIncreasing ==
    (asm_pc = "yielded" /\ ContextRequested) =>
        /\ \A a \in 2..Len(asm_out) : asm_out[a - 1][3] < asm_out[a][3]
        /\ {asm_out[a][3] : a \in 1..Len(asm_out)}
              = {asm_lines[a][3] : a \in 1..Len(asm_lines)}

====
